---------------------------- MODULE Spec2Model ----------------------------
(***************************************************************************)
(* Multi-shell multi-tissue constrained spherical deconvolution            *)
(* (dipy/reconst/mcsd.py) as a state machine.                              *)
(*                                                                         *)
(* Numbers.  Real values (basis samples, response entries, coefficients,   *)
(* signals) are held as integers counting tenths: SH_CONST = .5/sqrt(pi)   *)
(* = 0.28 is 3 and 1.0 is One = 10.  A product of two such values counts   *)
(* hundredths; sums, signs, comparisons with zero and equalities between    *)
(* values of one unit are exact.  The ratio response / delta is a plain     *)
(* number: the responses drawn are whole multiples of the delta kernel, so  *)
(* the division is exact.                                                   *)
(*                                                                         *)
(* Indices are the 0-based indices of the Python code; Get reads a          *)
(* sequence at such an index.                                               *)
(*                                                                         *)
(* An operation that may raise returns a record whose err field names the   *)
(* exception ("none" when it returns) and whose ret field is the value      *)
(* returned (None when it raised).                                          *)
(***************************************************************************)
EXTENDS Integers, Sequences, FiniteSets, TLC

VARIABLES model, outcome

vars == <<model, outcome>>

None == "None"

\* None where a sequence is expected (gtab=None, x.value is None)
NoSeq == <<>>

\* .5 / np.sqrt(np.pi) = 0.28, in tenths
SH_CONST == 3

\* 1.0, in tenths
One == 10

(***************************************************************************)
(* Bounds of the model.                                                    *)
(***************************************************************************)
\* gradient directions per gradient table
MaxGrad == 4

\* largest number of isotropic compartments drawn
MaxIso == 2

(***************************************************************************)
(* Arrays.                                                                 *)
(***************************************************************************)
Get(s, i) == s[i + 1]

Abs(a) == IF a < 0 THEN -a ELSE a

RECURSIVE SeqSum(_)
SeqSum(s) == IF Len(s) = 0 THEN 0 ELSE Head(s) + SeqSum(Tail(s))

RECURSIVE SeqMax(_)
SeqMax(s) ==
    IF Len(s) = 1 THEN s[1]
    ELSE LET t == SeqMax(Tail(s)) IN IF s[1] >= t THEN s[1] ELSE t

Fill(v, k) == [i \in 1..k |-> v]

NRows(M) == Len(M)

NCols(M) == IF Len(M) = 0 THEN 0 ELSE Len(M[1])

Column(M, j) == [i \in 1..NRows(M) |-> M[i][j]]

\* np.dot of two vectors
Dot(a, b) == SeqSum([i \in 1..Len(a) |-> a[i] * b[i]])

\* np.dot(X.T, X)
Gram(X) == [j \in 1..NCols(X) |-> [k \in 1..NCols(X) |-> Dot(Column(X, j), Column(X, k))]]

\* np.dot(X.T, v)
TDot(X, v) == [j \in 1..NCols(X) |-> Dot(Column(X, j), v)]

\* np.dot(M, v)
MatVec(M, v) == [i \in 1..NRows(M) |-> Dot(M[i], v)]

NegV(v) == [i \in 1..Len(v) |-> -v[i]]

NegM(M) == [i \in 1..NRows(M) |-> NegV(M[i])]

(***************************************************************************)
(* Collaborators outside the file: the gradient table, the sphere and the   *)
(* spherical-harmonic utilities of dipy.reconst.shm.                        *)
(***************************************************************************)
\* shm.sph_harm_ind_list(sh_order): the degree n of every basis function, for
\* the even degrees 0..sh_order.  The library lists the 2n+1 orders m = -n..n
\* of each degree; the model keeps the zonal one (m = 0) of each.
sph_harm_ind_list(sh_order) == [j \in 1..(sh_order \div 2 + 1) |-> 2 * (j - 1)]

\* shm.real_sph_harm(0, n, theta, phi) at the angles of direction d (a gradient
\* or a sphere vertex points along "z" or along "x"), in tenths:
\* Y_0 = 0.28 everywhere; Y_2 = 0.63, -0.32 and Y_4 = 0.85, 0.32 on the pole
\* ("z") and on the equator ("x").
real_sph_harm(n, d) ==
    CASE n = 0 -> SH_CONST
      [] n = 2 -> IF d = "z" THEN 6 ELSE -3
      [] OTHER -> IF d = "z" THEN 8 ELSE 3

\* gtab.b0s_mask, gtab.bvals and the directions of gtab.gradients
b0s_mask(gtab) == [i \in 1..Len(gtab) |-> gtab[i].b0]

bvals(gtab) == [i \in 1..Len(gtab) |-> gtab[i].bval]

(***************************************************************************)
(* multi_tissue_basis                                                      *)
(***************************************************************************)
\* B[np.ix_(gtab.b0s_mask, n > 0)] = 0., with the degree test off by one
ZeroB0_any_degree(B, mask, n) ==
    [i \in 1..NRows(B) |-> [j \in 1..Len(n) |->
        IF mask[i] /\ n[j] >= 0 THEN 0 ELSE B[i][j]]]

\* B[np.ix_(gtab.b0s_mask, n > 0)] = 0.
ZeroB0(B, mask, n) ==
    [i \in 1..NRows(B) |-> [j \in 1..Len(n) |->
        IF mask[i] /\ n[j] > 0 THEN 0 ELSE B[i][j]]]

multi_tissue_basis(gtab, sh_order, iso_comp) ==
    IF iso_comp < 1
    THEN [err |-> "ValueError", ret |-> None]
    ELSE LET n == sph_harm_ind_list(sh_order)
             m == Fill(0, Len(n))
             B0 == [i \in 1..Len(gtab) |-> [j \in 1..Len(n) |->
                        real_sph_harm(n[j], gtab[i].dir)]]
             B1 == ZeroB0(B0, b0s_mask(gtab), n)
             iso == [i \in 1..Len(gtab) |-> Fill(SH_CONST, iso_comp)]
             B == [i \in 1..Len(gtab) |-> iso[i] \o B1[i]]
         IN  [err |-> "none", ret |-> [B |-> B, m |-> m, n |-> n]]

(***************************************************************************)
(* MultiShellResponse                                                      *)
(***************************************************************************)
MultiShellResponse_iso(self) == NCols(self.response) - (self.sh_order \div 2) - 1

\* __init__ with the test "self.iso < 0"
MultiShellResponse_init_allows_zero(response, sh_order, shells) ==
    LET self == [response |-> response,
                 sh_order |-> sh_order,
                 n |-> [j \in 1..(sh_order \div 2 + 1) |-> 2 * (j - 1)],
                 m |-> Fill(0, sh_order \div 2 + 1),
                 shells |-> shells]
    IN  IF MultiShellResponse_iso(self) < 0
        THEN [err |-> "ValueError", ret |-> None]
        ELSE [err |-> "none", ret |-> self]

MultiShellResponse_init(response, sh_order, shells) ==
    LET self == [response |-> response,
                 sh_order |-> sh_order,
                 n |-> [j \in 1..(sh_order \div 2 + 1) |-> 2 * (j - 1)],
                 m |-> Fill(0, sh_order \div 2 + 1),
                 shells |-> shells]
    IN  IF MultiShellResponse_iso(self) < 1
        THEN [err |-> "ValueError", ret |-> None]
        ELSE [err |-> "none", ret |-> self]

(***************************************************************************)
(* closest and _inflate_response                                           *)
(***************************************************************************)
\* diff.argmin(axis=0) taking the last of equal minima
closest_last(haystack, needle) ==
    [i \in 1..Len(needle) |->
        LET diff == [s \in 1..Len(haystack) |-> Abs(haystack[s] - needle[i])]
        IN  (CHOOSE s \in 1..Len(haystack) :
                /\ \A t \in 1..Len(haystack) : diff[s] <= diff[t]
                /\ \A t \in (s + 1)..Len(haystack) : diff[t] > diff[s]) - 1]

\* diff = abs(haystack[:, None] - needle); diff.argmin(axis=0): for every
\* needle the index of the first occurrence of the smallest difference
closest(haystack, needle) ==
    [i \in 1..Len(needle) |->
        LET diff == [s \in 1..Len(haystack) |-> Abs(haystack[s] - needle[i])]
        IN  (CHOOSE s \in 1..Len(haystack) :
                /\ \A t \in 1..Len(haystack) : diff[s] <= diff[t]
                /\ \A t \in 1..(s - 1) : diff[t] > diff[s]) - 1]

\* the test of line 69 with the bound on the degrees not enforced at equality
mismatch_strict(response, n) ==
    \/ \E j \in 1..Len(n) : n[j] % 2 # 0
    \/ (SeqMax(n) \div 2) > response.sh_order

\* any((n % 2) != 0) or (n.max() // 2) >= response.sh_order
mismatch(response, n) ==
    \/ \E j \in 1..Len(n) : n[j] % 2 # 0
    \/ (SeqMax(n) \div 2) >= response.sh_order

\* n_idx[:iso] = np.arange(0, iso); n_idx[iso:] = n // 2 + iso
column_index(iso, n) ==
    [j \in 1..(Len(n) + iso) |-> IF j <= iso THEN j - 1 ELSE (n[j - iso] \div 2) + iso]

\* The locals b_idx and n_idx are returned beside the result so that the
\* selection made can be observed.
_inflate_response(response, gtab, n, delta) ==
    IF mismatch(response, n)
    THEN [err |-> "ValueError: Response and n do not match", ret |-> None,
          n_idx |-> None, b_idx |-> None]
    ELSE LET iso == MultiShellResponse_iso(response)
             n_idx == column_index(iso, n)
             b_idx == closest(response.shells, bvals(gtab))
             R == response.response
         IN  IF Len(delta) # NCols(R)
             THEN \* response.response / delta does not broadcast
                  [err |-> "ValueError: operands could not be broadcast", ret |-> None,
                   n_idx |-> n_idx, b_idx |-> b_idx]
             ELSE LET kernal == [s \in 1..NRows(R) |-> [c \in 1..NCols(R) |->
                                    R[s][c] \div delta[c]]]
                  IN  IF \E j \in 1..Len(n_idx) : n_idx[j] >= NCols(kernal)
                      THEN [err |-> "IndexError", ret |-> None,
                            n_idx |-> n_idx, b_idx |-> b_idx]
                      ELSE [err |-> "none",
                            ret |-> [i \in 1..Len(b_idx) |-> [j \in 1..Len(n_idx) |->
                                        Get(Get(kernal, b_idx[i]), n_idx[j])]],
                            n_idx |-> n_idx, b_idx |-> b_idx]

(***************************************************************************)
(* _basic_delta                                                            *)
(***************************************************************************)
\* shm.gen_dirac(m, n, 0., 0.): the basis functions sampled on the pole
gen_dirac(n) == [j \in 1..Len(n) |-> real_sph_harm(n[j], "z")]

\* np.concatenate([[SH_CONST] * iso, wm_d]) at theta = phi = 0
_basic_delta(iso, m, n) == Fill(SH_CONST, iso) \o gen_dirac(n)

(***************************************************************************)
(* _rank, quadprog and QpFitter                                            *)
(***************************************************************************)
Minor(M, i, j) ==
    [r \in 1..(Len(M) - 1) |-> [c \in 1..(Len(M) - 1) |->
        M[IF r < i THEN r ELSE r + 1][IF c < j THEN c ELSE c + 1]]]

RECURSIVE Det(_)
Det(M) ==
    IF Len(M) = 0 THEN 1
    ELSE IF Len(M) = 1 THEN M[1][1]
    ELSE SeqSum([j \in 1..Len(M) |->
            IF M[1][j] = 0 THEN 0
            ELSE (IF j % 2 = 1 THEN 1 ELSE -1) * M[1][j] * Det(Minor(M, 1, j))])

\* the k-th smallest member of a set of integers
RECURSIVE Nth(_, _)
Nth(S, k) ==
    LET lo == CHOOSE x \in S : \A y \in S : x <= y
    IN  IF k = 1 THEN lo ELSE Nth(S \ {lo}, k - 1)

SubMatrix(M, R, C) ==
    [r \in 1..Cardinality(R) |-> [c \in 1..Cardinality(C) |-> M[Nth(R, r)][Nth(C, c)]]]

HasMinor(A, k) ==
    \E R \in SUBSET (1..NRows(A)) : \E C \in SUBSET (1..NCols(A)) :
        /\ Cardinality(R) = k
        /\ Cardinality(C) = k
        /\ Det(SubMatrix(A, R, C)) # 0

RECURSIVE RankFrom(_, _)
RankFrom(A, k) ==
    IF k > NRows(A) \/ k > NCols(A) \/ ~HasMinor(A, k) THEN k - 1 ELSE RankFrom(A, k + 1)

\* the rank test left out: every matrix counts as full rank
_rank_unchecked(A) == NRows(A)

\* s = la.svd(A, False, False); (s > s[0] * tol).sum(), tol = 1e-8: the number
\* of singular values above the threshold.  A has whole entries of bounded
\* size, so its nonzero singular values lie far above s[0] * 1e-8 and the
\* count is the rank of A: the size of its largest nonsingular minor.
_rank(A) == RankFrom(A, 1)

\* The answers of cvxpy's prob.solve() to the problem
\*   minimize 1/2 x'Px + Q'x  subject to  Gx <= H
\* with x drawn from Grid: "optimal" (x.value is a vector satisfying the
\* constraints), "infeasible" (a report that there is none; x.value stays
\* None), or "solver_error" (no convergence; SolverError is raised).
Feasible(G, H, x) == \A i \in 1..NRows(G) : Dot(G[i], x) <= H[1]

solve(P, Q, G, H, Grid) ==
    {[status |-> "optimal", value |-> x] : x \in {y \in Grid : Feasible(G, H, y)}}
        \cup {[status |-> st, value |-> NoSeq] : st \in {"infeasible", "solver_error"}}

\* quadprog putting zeros where the solver left no value
quadprog_zero_default(P, Q, G, H, sol) ==
    IF sol.status = "solver_error"
    THEN [err |-> "SolverError", ret |-> None]
    ELSE IF sol.status # "optimal"
         THEN [err |-> "none", ret |-> Fill(0, Len(Q))]
         ELSE [err |-> "none", ret |-> sol.value]

\* prob.solve(); opt = np.array(x.value).reshape((Q.shape[0],)), where sol is
\* the solver's answer.  np.array(None) has one element, so the reshape raises
\* unless Q has length 1.
quadprog(P, Q, G, H, sol) ==
    IF sol.status = "solver_error"
    THEN [err |-> "SolverError", ret |-> None]
    ELSE IF sol.status # "optimal"
         THEN IF Len(Q) = 1
              THEN [err |-> "none", ret |-> <<None>>]
              ELSE [err |-> "ValueError: cannot reshape", ret |-> None]
         ELSE [err |-> "none", ret |-> sol.value]

QpFitter_init(X, reg) ==
    LET P == Gram(X)
    IN  IF _rank(P) # NRows(P)
        THEN [err |-> "AssertionError", ret |-> None]
        ELSE [err |-> "none",
              ret |-> [_P |-> P, _X |-> X, _reg |-> reg, _P_mat |-> P,
                       _reg_mat |-> NegM(reg), _h_mat |-> <<0>>]]

\* __call__ handing Q itself to the solver
QpFitter_call_unnegated(self, signal, sol) ==
    LET Q == TDot(self._X, signal)
        r == quadprog(self._P_mat, Q, self._reg_mat, self._h_mat, sol)
    IN  [self |-> self, err |-> r.err, ret |-> r.ret,
         qp |-> [P |-> self._P_mat, Q |-> Q, G |-> self._reg_mat, H |-> self._h_mat]]

\* __call__: the fitter after the call, the result, and the problem handed to
\* quadprog
QpFitter_call(self, signal, sol) ==
    LET Q == TDot(self._X, signal)
        Q_mat == NegV(Q)
        r == quadprog(self._P_mat, Q_mat, self._reg_mat, self._h_mat, sol)
    IN  [self |-> self, err |-> r.err, ret |-> r.ret,
         qp |-> [P |-> self._P_mat, Q |-> Q_mat, G |-> self._reg_mat, H |-> self._h_mat]]

(***************************************************************************)
(* MultiShellDeconvModel and MSDeconvFit                                   *)
(***************************************************************************)
\* shm.real_sym_sh_basis(sh_order, theta, phi) on the vertices of a sphere
real_sym_sh_basis(sh_order, vertices) ==
    LET n == sph_harm_ind_list(sh_order)
    IN  [v \in 1..Len(vertices) |-> [j \in 1..Len(n) |-> real_sph_harm(n[j], vertices[v])]]

\* the constraint matrix without its identity block
regularization_no_eye(odf_reg, iso) ==
    [i \in 1..(NRows(odf_reg) + iso) |-> [j \in 1..(NCols(odf_reg) + iso) |->
        IF i > iso /\ j > iso THEN odf_reg[i - iso][j - iso] ELSE 0]]

\* reg = np.zeros([i + iso for i in odf_reg.shape]);
\* reg[:iso, :iso] = np.eye(iso); reg[iso:, iso:] = odf_reg
regularization(odf_reg, iso) ==
    [i \in 1..(NRows(odf_reg) + iso) |-> [j \in 1..(NCols(odf_reg) + iso) |->
        IF i <= iso /\ j <= iso THEN (IF i = j THEN One ELSE 0)
        ELSE IF i > iso /\ j > iso THEN odf_reg[i - iso][j - iso]
        ELSE 0]]

\* B * multiplier_matrix, elementwise; the shapes are (rows, columns) with at
\* least two columns each, so they broadcast only when equal
forward_operator(B, multiplier_matrix) ==
    IF NRows(B) # NRows(multiplier_matrix) \/ NCols(B) # NCols(multiplier_matrix)
    THEN [err |-> "ValueError: operands could not be broadcast", ret |-> None]
    ELSE [err |-> "none",
          ret |-> [i \in 1..NRows(B) |-> [j \in 1..NCols(B) |->
                      B[i][j] * multiplier_matrix[i][j]]]]

\* __init__ with delta_form = 'basic'.  X is None until line 236 is reached.
MultiShellDeconvModel_init(gtab, response, reg_sphere, iso) ==
    LET sh_order == response.sh_order
        basis == multi_tissue_basis(gtab, sh_order, iso)
    IN  IF basis.err # "none" THEN [err |-> basis.err, ret |-> None, X |-> None]
        ELSE
        LET B == basis.ret.B
            m == basis.ret.m
            n == basis.ret.n
            delta == _basic_delta(MultiShellResponse_iso(response), response.m, response.n)
            inflated == _inflate_response(response, gtab, n, delta)
        IN  IF inflated.err # "none" THEN [err |-> inflated.err, ret |-> None, X |-> None]
            ELSE
            LET odf_reg == real_sym_sh_basis(sh_order, reg_sphere)
                reg == regularization(odf_reg, iso)
                product == forward_operator(B, inflated.ret)
            IN  IF product.err # "none" THEN [err |-> product.err, ret |-> None, X |-> None]
                ELSE
                LET X == product.ret
                    fitter == QpFitter_init(X, reg)
                IN  IF fitter.err # "none" THEN [err |-> fitter.err, ret |-> None, X |-> X]
                    ELSE [err |-> "none", X |-> X,
                          ret |-> [gtab |-> gtab, delta |-> delta, fitter |-> fitter.ret,
                                   sh_order |-> sh_order, _X |-> X, sphere |-> reg_sphere,
                                   response |-> response, B_dwi |-> B, m |-> m, n |-> n]]

\* np.dot(params, X.T)
predicted_signal(params, X) ==
    IF Len(params) # NCols(X)
    THEN [err |-> "ValueError: shapes not aligned", ret |-> None]
    ELSE [err |-> "none", ret |-> MatVec(X, params)]

\* predict keeping the operator it rebuilt for another gradient table
predict_caching(self, params, gtab) ==
    IF gtab = NoSeq
    THEN LET r == predicted_signal(params, self._X)
         IN  [self |-> self, err |-> r.err, ret |-> r.ret]
    ELSE LET iso == MultiShellResponse_iso(self.response)
             basis == multi_tissue_basis(gtab, self.sh_order, iso)
         IN  IF basis.err # "none" THEN [self |-> self, err |-> basis.err, ret |-> None]
             ELSE
             LET inflated == _inflate_response(self.response, gtab, basis.ret.n, self.delta)
             IN  IF inflated.err # "none"
                 THEN [self |-> self, err |-> inflated.err, ret |-> None]
                 ELSE
                 LET product == forward_operator(basis.ret.B, inflated.ret)
                 IN  IF product.err # "none"
                     THEN [self |-> self, err |-> product.err, ret |-> None]
                     ELSE LET r == predicted_signal(params, product.ret)
                          IN  [self |-> [self EXCEPT !._X = product.ret],
                               err |-> r.err, ret |-> r.ret]

\* predict(self, params, gtab=None, S0=None): the model after the call and the
\* result.  S0 is not read.
predict(self, params, gtab) ==
    IF gtab = NoSeq
    THEN LET r == predicted_signal(params, self._X)
         IN  [self |-> self, err |-> r.err, ret |-> r.ret]
    ELSE LET iso == MultiShellResponse_iso(self.response)
             basis == multi_tissue_basis(gtab, self.sh_order, iso)
         IN  IF basis.err # "none" THEN [self |-> self, err |-> basis.err, ret |-> None]
             ELSE
             LET inflated == _inflate_response(self.response, gtab, basis.ret.n, self.delta)
             IN  IF inflated.err # "none"
                 THEN [self |-> self, err |-> inflated.err, ret |-> None]
                 ELSE
                 LET product == forward_operator(basis.ret.B, inflated.ret)
                 IN  IF product.err # "none"
                     THEN [self |-> self, err |-> product.err, ret |-> None]
                     ELSE LET r == predicted_signal(params, product.ret)
                          IN  [self |-> self, err |-> r.err, ret |-> r.ret]

\* fit(self, data) for one voxel: coeff = self.fitter(data);
\* MSDeconvFit(self, coeff, None).  ret is the fit's _shm_coef.
fit(self, data, sol) ==
    LET called == QpFitter_call(self.fitter, data, sol)
    IN  [self |-> [self EXCEPT !.fitter = called.self],
         err |-> called.err, ret |-> called.ret, qp |-> called.qp]

\* self._shm_coef[..., :tissue_classes] / SH_CONST, tissue_classes =
\* self.model.response.iso + 1; the quotient in tenths, rounded down
volume_fractions(self_model, _shm_coef) ==
    LET tissue_classes == MultiShellResponse_iso(self_model.response) + 1
    IN  [i \in 1..tissue_classes |-> (_shm_coef[i] * One) \div SH_CONST]

(***************************************************************************)
(* Inputs.                                                                 *)
(***************************************************************************)
NoModel == [constructed |-> FALSE]

\* The gradient tables of at most MaxGrad rows, the rows in the order of
\* rowseq: one table for each multiset of rows.
Tables(rowseq) ==
    UNION {{[i \in 1..k |-> rowseq[f[i]]] :
                f \in {g \in [1..k -> 1..Len(rowseq)] :
                            \A i \in 1..(k - 1) : g[i] <= g[i + 1]}} :
           k \in 1..MaxGrad}

\* a b0 measurement and three weighted ones
GradRows ==
    <<[dir |-> "z", bval |-> 0, b0 |-> TRUE],
      [dir |-> "z", bval |-> 1000, b0 |-> FALSE],
      [dir |-> "x", bval |-> 1000, b0 |-> FALSE],
      [dir |-> "z", bval |-> 2000, b0 |-> FALSE]>>

GradTables == Tables(GradRows)

\* b-values between and beside the shells 0, 1000, 2000
ShellRows ==
    <<[dir |-> "z", bval |-> 500, b0 |-> FALSE],
      [dir |-> "z", bval |-> 1490, b0 |-> FALSE],
      [dir |-> "z", bval |-> 1500, b0 |-> FALSE],
      [dir |-> "z", bval |-> 2000, b0 |-> FALSE]>>

Shells == <<0, 1000, 2000>>

Spheres == {<<"z">>, <<"z", "x">>}

Orders == {0, 2, 4}

\* The response of a shell is a multiple of the delta kernel, column by
\* column: everywhere 1 ("flat"), or 2 on every second ("even") or every
\* third ("third") column.
Profile(p, c) ==
    IF (p = "even" /\ c % 2 = 0) \/ (p = "third" /\ c % 3 = 0) THEN 2 ELSE 1

Profiles == {<<"flat", "flat", "flat">>, <<"flat", "even", "third">>}

response_matrix(profiles, iso, sh_order) ==
    LET n == [j \in 1..(sh_order \div 2 + 1) |-> 2 * (j - 1)]
        delta == _basic_delta(iso, Fill(0, Len(n)), n)
    IN  [s \in 1..Len(profiles) |-> [c \in 1..Len(delta) |->
            Profile(profiles[s], c) * delta[c]]]

Responses(shells, profiles, orders) ==
    {MultiShellResponse_init(response_matrix(p, iso, o), o, shells).ret :
        p \in profiles, iso \in 1..MaxIso, o \in orders}

Signals(k) == [1..k -> {0, 1}]

Grid(k) == [1..k -> {-1, 0, 1}]

Answers(k) ==
    {[status |-> "optimal", value |-> x] : x \in Grid(k)}
        \cup {[status |-> st, value |-> NoSeq] : st \in {"infeasible", "solver_error"}}

(***************************************************************************)
(* The state: the model constructed (NoModel before) and the outcome of the *)
(* call made, which the caller takes (Return) before the next call.        *)
(***************************************************************************)
Idle == [op |-> "none"]

Init ==
    /\ model = NoModel
    /\ outcome = Idle

Return ==
    /\ outcome # Idle
    /\ outcome' = Idle
    /\ UNCHANGED model

Construct ==
    /\ outcome = Idle
    /\ model = NoModel
    /\ \E gtab \in GradTables, response \in Responses(Shells, Profiles, {0, 2}),
          reg_sphere \in Spheres, iso \in 1..MaxIso :
        LET r == MultiShellDeconvModel_init(gtab, response, reg_sphere, iso)
        IN  /\ model' = IF r.err = "none" THEN r.ret ELSE NoModel
            /\ outcome' = [op |-> "MultiShellDeconvModel", err |-> r.err, X |-> r.X]

NewQpFitter ==
    /\ outcome = Idle
    /\ \E X \in [1..2 -> [1..2 -> 0..2]] :
        LET r == QpFitter_init(X, <<<<One, 0>>, <<0, One>>>>)
        IN  outcome' = [op |-> "QpFitter", err |-> r.err, X |-> X]
    /\ UNCHANGED model

Fit ==
    /\ outcome = Idle
    /\ model # NoModel
    /\ \E data \in Signals(Len(model.gtab)), sol \in Answers(NCols(model._X)) :
        LET r == fit(model, data, sol)
        IN  /\ sol \in solve(r.qp.P, r.qp.Q, r.qp.G, r.qp.H, Grid(NCols(model._X)))
            /\ model' = r.self
            /\ outcome' = [op |-> "fit", data |-> data, status |-> sol.status,
                           err |-> r.err, ret |-> r.ret, qp |-> r.qp]

VolumeFractions ==
    /\ outcome.op = "fit"
    /\ outcome.err = "none"
    /\ outcome' = [op |-> "volume_fractions", coef |-> outcome.ret,
                   ret |-> volume_fractions(model, outcome.ret)]
    /\ UNCHANGED model

Predict ==
    /\ outcome = Idle
    /\ model # NoModel
    /\ \E params \in Signals(NCols(model._X)), gtab \in {t \in GradTables : Len(t) <= 2} \cup {NoSeq} :
        LET r == predict(model, params, gtab)
        IN  /\ model' = r.self
            /\ outcome' = [op |-> "predict", params |-> params, gtab |-> gtab,
                           err |-> r.err, ret |-> r.ret]

Next == Construct \/ NewQpFitter \/ Fit \/ VolumeFractions \/ Predict \/ Return

Spec == Init /\ [][Next]_vars

(***************************************************************************)
(* The response and the basis on their own.                                *)
(***************************************************************************)
NewResponse ==
    /\ outcome = Idle
    /\ \E shells \in {<<0, 1000>>, <<0, 1000, 2000>>}, columns \in 1..(MaxIso + 2),
          sh_order \in Orders :
        LET response == [s \in 1..Len(shells) |-> Fill(SH_CONST, columns)]
            r == MultiShellResponse_init(response, sh_order, shells)
        IN  outcome' = [op |-> "MultiShellResponse", columns |-> columns,
                        sh_order |-> sh_order, err |-> r.err, ret |-> r.ret]
    /\ UNCHANGED model

Basis ==
    /\ outcome = Idle
    /\ \E gtab \in GradTables, sh_order \in Orders, iso_comp \in 0..MaxIso :
        LET r == multi_tissue_basis(gtab, sh_order, iso_comp)
        IN  outcome' = [op |-> "multi_tissue_basis", gtab |-> gtab, sh_order |-> sh_order,
                        iso_comp |-> iso_comp, err |-> r.err, ret |-> r.ret]
    /\ UNCHANGED model

NextBasis == NewResponse \/ Basis \/ Return

SpecBasis == Init /\ [][NextBasis]_vars

(***************************************************************************)
(* _inflate_response on its own.                                           *)
(***************************************************************************)
DegreeLists == UNION {[1..k -> {0, 1, 2, 4, 6}] : k \in 1..2}

Inflate ==
    /\ outcome = Idle
    /\ \E response \in Responses(Shells, Profiles, Orders),
          gtab \in Tables(ShellRows),
          n \in DegreeLists :
        LET delta == _basic_delta(MultiShellResponse_iso(response), response.m, response.n)
            r == _inflate_response(response, gtab, n, delta)
        IN  outcome' = [op |-> "_inflate_response", response |-> response,
                        bvals |-> bvals(gtab), n |-> n, err |-> r.err, ret |-> r.ret,
                        n_idx |-> r.n_idx, b_idx |-> r.b_idx]
    /\ UNCHANGED model

NextInflate == Inflate \/ Return

SpecInflate == Init /\ [][NextInflate]_vars

(***************************************************************************)
(* Properties.                                                             *)
(***************************************************************************)
Iso == MultiShellResponse_iso(model.response)

\* sum over the rows i of X[i][j] * v[i]
ColumnSum(X, v, j) == SeqSum([i \in 1..NRows(X) |-> X[i][j] * v[i]])

\* C1, as the claim states it: the linear term the solver receives is
\* X^T . signal.
C1_LinearTermIsXtSignal ==
    outcome.op = "fit" =>
        \A j \in 1..NCols(model._X) :
            outcome.qp.Q[j] = ColumnSum(model._X, outcome.data, j)

\* C1, amended: for every signal the solver is handed P = X^T X, the linear
\* term -(X^T . signal), the constraint matrix -reg and the right-hand side 0,
\* that is: minimize 0.5 x'Px - (X^T signal)'x subject to -reg x <= 0.
C1_LinearTermIsMinusXtSignal ==
    outcome.op = "fit" =>
        /\ Len(outcome.qp.Q) = NCols(model._X)
        /\ \A j \in 1..NCols(model._X) :
            /\ outcome.qp.Q[j] = -ColumnSum(model._X, outcome.data, j)
            /\ \A k \in 1..NCols(model._X) :
                outcome.qp.P[j][k] = ColumnSum(model._X, Column(model._X, k), j)
        /\ \A i \in 1..NRows(model.fitter._reg) : \A j \in 1..NCols(model._X) :
            outcome.qp.G[i][j] = -model.fitter._reg[i][j]
        /\ outcome.qp.H = <<0>>

\* a fit whose signal makes X^T . signal differ from zero
C1_Witness ==
    /\ outcome.op = "fit"
    /\ \E j \in 1..NCols(model._X) : ColumnSum(model._X, outcome.data, j) > 0

\* the coefficients satisfy the fitter's constraint reg . x >= 0
SatisfiesConstraint(x) ==
    \A i \in 1..NRows(model.fitter._reg) : Dot(model.fitter._reg[i], x) >= 0

\* C2, as the claim states it: for coefficients that satisfy reg . x >= 0,
\* each of the iso + 1 volume fractions is non-negative.
C2_AllFractionsNonNegative ==
    (outcome.op = "volume_fractions" /\ SatisfiesConstraint(outcome.coef)) =>
        \A i \in 1..(Iso + 1) : outcome.ret[i] >= 0

\* C2, amended: for coefficients that satisfy reg . x >= 0, volume_fractions
\* has iso + 1 entries and each of the first iso of them (the isotropic
\* compartments, which the identity block constrains) is non-negative.
C2_IsoFractionsNonNegative ==
    (outcome.op = "volume_fractions" /\ SatisfiesConstraint(outcome.coef)) =>
        /\ Len(outcome.ret) = Iso + 1
        /\ \A i \in 1..Iso : outcome.ret[i] >= 0

\* the fractions of a fit with two isotropic compartments, one of them not 0
C2_Witness ==
    /\ outcome.op = "volume_fractions"
    /\ SatisfiesConstraint(outcome.coef)
    /\ Iso = 2
    /\ outcome.ret[2] > 0

\* some combination of the columns of X, with coefficients in -2..2 and not
\* all 0, is the zero vector
DependentColumns(X) ==
    \E c \in [1..NCols(X) -> -2..2] :
        /\ \E j \in 1..NCols(X) : c[j] # 0
        /\ \A i \in 1..NRows(X) : Dot(X[i], c) = 0

DuplicateColumns(X) ==
    \E j, k \in 1..NCols(X) : j < k /\ Column(X, j) = Column(X, k)

\* C5: a QpFitter built from X (directly, or by the model) fails with the
\* assertion error exactly when the rank of P = X^T X differs from the size of
\* P, so it fails whenever X has duplicate or otherwise dependent columns; a
\* model exists afterwards only when the construction succeeded.
C5_RankDeficientFails ==
    (outcome.op \in {"QpFitter", "MultiShellDeconvModel"}
        /\ outcome.err \in {"none", "AssertionError"}) =>
        /\ (outcome.err = "AssertionError") <=>
                (_rank(Gram(outcome.X)) # NCols(outcome.X))
        /\ DuplicateColumns(outcome.X) => outcome.err = "AssertionError"
        /\ DependentColumns(outcome.X) => outcome.err = "AssertionError"
        /\ outcome.op = "MultiShellDeconvModel" =>
                IF outcome.err = "none"
                THEN model # NoModel /\ model._X = outcome.X
                ELSE model = NoModel

\* a fitter refused for an X with two equal columns that are not zero
C5_Witness ==
    /\ outcome.op = "QpFitter"
    /\ outcome.err = "AssertionError"
    /\ DuplicateColumns(outcome.X)
    /\ \E i \in 1..NRows(outcome.X) : outcome.X[i][1] # 0

\* C6: when the solver reports that there is no solution or fails, the fit of
\* the voxel ends in an error and returns no coefficients; the problem has
\* iso + (number of SH coefficients) unknowns.
C6_SolverFailurePropagates ==
    (outcome.op = "fit" /\ outcome.status # "optimal") =>
        /\ Len(outcome.qp.Q) = Iso + Len(model.n)
        /\ outcome.err # "none"
        /\ outcome.ret = None

\* a fit for which the solver reported no solution
C6_Witness ==
    /\ outcome.op = "fit"
    /\ outcome.status = "infeasible"
    /\ outcome.err # "none"

C8_B0RowsZeroed ==
    (outcome.op = "multi_tissue_basis" /\ outcome.err = "none") =>
        LET B == outcome.ret.B
            n == outcome.ret.n
            iso == outcome.iso_comp
        IN  /\ NRows(B) = Len(outcome.gtab)
            /\ \A i \in 1..Len(outcome.gtab) : outcome.gtab[i].b0 =>
                /\ Len(B[i]) = iso + Len(n)
                /\ \A j \in 1..iso : B[i][j] = SH_CONST
                /\ \A j \in 1..Len(n) :
                    IF n[j] > 0
                    THEN B[i][iso + j] = 0
                    ELSE /\ B[i][iso + j] = real_sph_harm(0, outcome.gtab[i].dir)
                         /\ B[i][iso + j] # 0

\* a basis of degrees 0, 2, 4 with two isotropic columns and a b0 row
C8_Witness ==
    /\ outcome.op = "multi_tissue_basis"
    /\ outcome.err = "none"
    /\ outcome.sh_order = 4
    /\ outcome.iso_comp = 2
    /\ \E i \in 1..Len(outcome.gtab) : outcome.gtab[i].b0

\* C9: a response whose columns - sh_order // 2 - 1 is below 1, and a basis
\* asked for with iso_comp below 1, fail with ValueError and return nothing;
\* whatever is returned has at least one isotropic compartment.
C9_IsoAtLeastOne ==
    /\ outcome.op = "MultiShellResponse" =>
        /\ (outcome.columns - (outcome.sh_order \div 2) - 1 < 1) =>
                (outcome.err = "ValueError" /\ outcome.ret = None)
        /\ outcome.err = "none" =>
                /\ outcome.columns - (outcome.sh_order \div 2) - 1 >= 1
                /\ MultiShellResponse_iso(outcome.ret) >= 1
    /\ outcome.op = "multi_tissue_basis" =>
        /\ outcome.iso_comp < 1 => (outcome.err = "ValueError" /\ outcome.ret = None)
        /\ outcome.err = "none" => outcome.iso_comp >= 1

\* a response refused because it has no isotropic column
C9_Witness ==
    /\ outcome.op = "MultiShellResponse"
    /\ outcome.columns - (outcome.sh_order \div 2) - 1 = 0
    /\ outcome.err = "ValueError"

Mismatched == "ValueError: Response and n do not match"

\* |shell t - b-value i|, t counted from 0
Distance(t, i) == Abs(Get(outcome.response.shells, t) - outcome.bvals[i])

\* C3: for every gradient direction the shell selected is one whose b-value is
\* nearest to the direction's, and every shell of lower index is farther;
\* with shells 0, 1000, 2000 the b-value 1490 selects index 1.  The row of the
\* result is the row of that shell.
C3_NearestShellLowestIndex ==
    (outcome.op = "_inflate_response" /\ outcome.err # Mismatched) =>
        \A i \in 1..Len(outcome.bvals) :
            LET s == outcome.b_idx[i]
                last == Len(outcome.response.shells) - 1
            IN  /\ s \in 0..last
                /\ \A t \in 0..last : Distance(s, i) <= Distance(t, i)
                /\ \A t \in 0..(s - 1) : Distance(t, i) > Distance(s, i)
                /\ outcome.bvals[i] = 1490 => s = 1
                /\ outcome.err = "none" =>
                    \A j \in 1..Len(outcome.n_idx) :
                        outcome.ret[i][j] * _basic_delta(MultiShellResponse_iso(outcome.response),
                                                outcome.response.m, outcome.response.n)[outcome.n_idx[j] + 1]
                            = outcome.response.response[s + 1][outcome.n_idx[j] + 1]

\* b-values 1490 and 1500 (as near to 1000 as to 2000) both select index 1
C3_Witness ==
    /\ outcome.op = "_inflate_response"
    /\ outcome.err = "none"
    /\ outcome.bvals = <<1490, 1500>>
    /\ outcome.b_idx = <<1, 1>>

\* C4: _inflate_response raises the mismatch error, and returns nothing,
\* exactly when some target degree is odd or max(n) / 2 >= response.sh_order.
C4_MismatchRejected ==
    outcome.op = "_inflate_response" =>
        LET bad == \/ \E j \in 1..Len(outcome.n) : outcome.n[j] % 2 = 1
                   \/ SeqMax(outcome.n) >= 2 * outcome.response.sh_order
        IN  /\ bad => (outcome.err = Mismatched /\ outcome.ret = None)
            /\ outcome.err = Mismatched => bad

\* even degrees refused because max(n) / 2 equals sh_order
C4_Witness ==
    /\ outcome.op = "_inflate_response"
    /\ outcome.err = Mismatched
    /\ outcome.n = <<0, 4>>
    /\ outcome.response.sh_order = 2

\* C10, as the claim states it: when the validation passes, every mapped
\* column index is below the number of columns of the response,
\* iso + sh_order // 2 + 1, and the gather raises no index error.
C10_ColumnsInRange ==
    (outcome.op = "_inflate_response" /\ outcome.err # Mismatched) =>
        /\ \A j \in 1..Len(outcome.n_idx) :
            outcome.n_idx[j] < MultiShellResponse_iso(outcome.response)
                                    + (outcome.response.sh_order \div 2) + 1
        /\ outcome.err # "IndexError"

=============================================================================
